---- MODULE Spec2Model ----
(***************************************************************************)
(* Model of the mindmap core of my-mindmap-module:                         *)
(*   parseTextToTree, treeToText, calculateLayout/layoutNode,              *)
(*   getSubtreeHeight, flattenPositions, getBoundingBox, countNodes and    *)
(*   getMaxDepth (src/src/api/services/mindmaps.ts, lines 128-358).        *)
(*                                                                         *)
(* A text is a sequence of one-character strings.  A node is a record      *)
(* [id, text, children]; while the parser runs, nodes live in a heap       *)
(* (a sequence indexed by allocation order) because the ancestor stack     *)
(* holds references to nodes whose children lists are still being pushed   *)
(* to.  Layout coordinates are exact dyadic rationals in the code; the     *)
(* model stores them multiplied by Scale so that every halving is exact.   *)
(***************************************************************************)
EXTENDS Integers, Sequences, FiniteSets, TLC

(***************************************************************************)
(* Bounds of the explored input space.                                     *)
(***************************************************************************)
MaxLines == 4
MaxIndent == 2
MaxNodes == 6

(***************************************************************************)
(* Characters.                                                             *)
(***************************************************************************)
SP == " "
TAB == "\t"
NL == "\n"

\* Characters String.prototype.trim removes and the regex class \s matches.
WhiteSpace == {SP, TAB, NL}

IsWhitespace(c) == c \in WhiteSpace

SeqMin(S) == CHOOSE m \in S : \A k \in S : m <= k

SeqMax(S) == CHOOSE m \in S : \A k \in S : m >= k

NonWsIndexes(line) == {j \in 1..Len(line) : ~IsWhitespace(line[j])}

\* Variant: trimStart, trailing whitespace kept.
TrimStartOnly(line) ==
  IF NonWsIndexes(line) = {} THEN <<>>
  ELSE SubSeq(line, SeqMin(NonWsIndexes(line)), Len(line))

\* line.trim()
Trim(line) ==
  IF NonWsIndexes(line) = {} THEN <<>>
  ELSE SubSeq(line, SeqMin(NonWsIndexes(line)), SeqMax(NonWsIndexes(line)))

\* line.match(/^(\s*)/)[1].length
LeadingSpaces(line) ==
  IF NonWsIndexes(line) = {} THEN Len(line)
  ELSE SeqMin(NonWsIndexes(line)) - 1

\* text.split('\n')
RECURSIVE Split(_)
Split(text) ==
  IF \A j \in 1..Len(text) : text[j] # NL THEN <<text>>
  ELSE LET k == SeqMin({j \in 1..Len(text) : text[j] = NL})
       IN  <<SubSeq(text, 1, k - 1)>> \o Split(SubSeq(text, k + 1, Len(text)))

\* Variant: only the empty line is skipped.
IsEmptyLine(line) == line = <<>>

\* if (line.trim() === '') return
IsBlankLine(line) == Trim(line) = <<>>

\* Variant: odd indentation rounds up.
LevelOfRoundUp(line) == (LeadingSpaces(line) + 1) \div 2

\* Math.floor(spaces / 2)
LevelOf(line) == LeadingSpaces(line) \div 2

\* The ParsedLine pushed for a surviving line.
ParsedLineOf(line, index) ==
  [text |-> Trim(line), level |-> LevelOf(line), lineNumber |-> index]

RECURSIVE ParseLinesFrom(_, _)
\* Variant: a blank line ends the scan instead of being skipped.
ParseLinesStopAtBlank(lines, index) ==
  IF index > Len(lines) THEN <<>>
  ELSE IF IsBlankLine(lines[index]) THEN <<>>
  ELSE <<ParsedLineOf(lines[index], index)>> \o ParseLinesFrom(lines, index + 1)

\* lines.forEach(...) : the surviving lines, in order.
ParseLinesFrom(lines, index) ==
  IF index > Len(lines) THEN <<>>
  ELSE IF IsBlankLine(lines[index]) THEN ParseLinesFrom(lines, index + 1)
  ELSE <<ParsedLineOf(lines[index], index)>> \o ParseLinesFrom(lines, index + 1)

ParseLines(text) == ParseLinesFrom(Split(text), 1)

(***************************************************************************)
(* Identifiers: generateId returns a fresh opaque string on every call;    *)
(* the n-th call of a run is modelled by the token n.                      *)
(***************************************************************************)
GenerateId(n) == n

EmptyMindmapText ==
  <<"E", "m", "p", "t", "y", " ", "M", "i", "n", "d", "m", "a", "p">>

NewNode(id, text) == [id |-> id, text |-> text, children |-> <<>>]

(***************************************************************************)
(* Tree construction over the heap.  A build state is [heap, stack]:       *)
(* heap[k].children holds heap indexes, stack entries are                  *)
(* [node |-> heap index, level |-> level].                                 *)
(***************************************************************************)
\* Variant: pops only entries of a strictly greater level.
ShouldPopStrict(stack, level) ==
  Len(stack) > 1 /\ stack[Len(stack)].level > level

\* The loop condition of the while that finds the parent.
ShouldPop(stack, level) ==
  Len(stack) > 1 /\ stack[Len(stack)].level >= level

RECURSIVE PopStack(_, _)
PopStack(stack, level) ==
  IF ShouldPop(stack, level)
  THEN PopStack(SubSeq(stack, 1, Len(stack) - 1), level)
  ELSE stack

\* The state after the root has been created from parsedLines[0].
RootState(first, id) ==
  [heap |-> <<NewNode(id, first.text)>>,
   stack |-> <<[node |-> 1, level |-> first.level]>>]

\* Variant: the child replaces the parent's children instead of being pushed.
AttachLineAssign(st, pl, id) ==
  LET popped == PopStack(st.stack, pl.level)
      parent == popped[Len(popped)].node
      new == Len(st.heap) + 1
  IN  [heap |-> [Append(st.heap, NewNode(id, pl.text))
                   EXCEPT ![parent].children = <<new>>],
       stack |-> Append(popped, [node |-> new, level |-> pl.level])]

\* Variant: the new node is not pushed onto the stack.
AttachLineNoPush(st, pl, id) ==
  LET popped == PopStack(st.stack, pl.level)
      parent == popped[Len(popped)].node
      new == Len(st.heap) + 1
  IN  [heap |-> [Append(st.heap, NewNode(id, pl.text))
                   EXCEPT ![parent].children = Append(@, new)],
       stack |-> popped]

\* One iteration of the for loop: pop, push the child, push the stack entry.
AttachLine(st, pl, id) ==
  LET popped == PopStack(st.stack, pl.level)
      parent == popped[Len(popped)].node
      new == Len(st.heap) + 1
  IN  [heap |-> [Append(st.heap, NewNode(id, pl.text))
                   EXCEPT ![parent].children = Append(@, new)],
       stack |-> Append(popped, [node |-> new, level |-> pl.level])]

\* The node value a heap reference denotes.
RECURSIVE NodeOf(_, _)
NodeOf(heap, k) ==
  [id |-> heap[k].id,
   text |-> heap[k].text,
   children |-> [j \in 1..Len(heap[k].children) |->
                   NodeOf(heap, heap[k].children[j])]]

RECURSIVE AttachAll(_, _, _, _)
AttachAll(st, pls, i, idBase) ==
  IF i > Len(pls) THEN st
  ELSE AttachAll(AttachLine(st, pls[i], GenerateId(idBase + i)), pls, i + 1, idBase)

\* parseTextToTree as a function; ids are the calls idBase+1.. of generateId.
ParseTextToTree(text, idBase) ==
  LET pls == ParseLines(text)
  IN  IF Len(pls) = 0
      THEN NewNode(GenerateId(idBase + 1), EmptyMindmapText)
      ELSE NodeOf(AttachAll(RootState(pls[1], GenerateId(idBase + 1)),
                            pls, 2, idBase).heap, 1)

(***************************************************************************)
(* Serializer.                                                             *)
(***************************************************************************)
RECURSIVE Spaces(_)
Spaces(n) == IF n = 0 THEN <<>> ELSE <<SP>> \o Spaces(n - 1)

\* Variant: one space per level.
IndentOneSpace(level) == Spaces(level)

\* '  '.repeat(level)
RECURSIVE Indent(_)
Indent(level) == IF level = 0 THEN <<>> ELSE <<SP, SP>> \o Indent(level - 1)

RECURSIVE JoinLines(_)
\* Variant: every element is followed by a line break, the last one too.
JoinLinesTerminated(texts) ==
  IF Len(texts) = 0 THEN <<>>
  ELSE texts[1] \o <<NL>> \o JoinLines(Tail(texts))

\* childTexts.join('\n')
JoinLines(texts) ==
  IF Len(texts) = 0 THEN <<>>
  ELSE IF Len(texts) = 1 THEN texts[1]
  ELSE texts[1] \o <<NL>> \o JoinLines(Tail(texts))

RECURSIVE TreeToText(_, _)
TreeToText(node, level) ==
  LET result == Indent(level) \o node.text
      childTexts == [j \in 1..Len(node.children) |->
                       TreeToText(node.children[j], level + 1)]
  IN  IF Len(node.children) > 0
      THEN result \o <<NL>> \o JoinLines(childTexts)
      ELSE result

(***************************************************************************)
(* Layout engine.  Coordinates are stored in units of 1/Scale pixel: the   *)
(* only non-integer operation of the code is the halving in the parent's   *)
(* y, applied at most once per tree level, so Scale = 2^(number of nodes   *)
(* the bounds allow) keeps every stored value an exact integer.            *)
(***************************************************************************)
NODE_HEIGHT == 40
NODE_PADDING == 20
LEVEL_GAP == 150
SIBLING_GAP == 20
MIN_NODE_WIDTH == 100
CHAR_WIDTH == 8

Scale == 2 ^ (MaxLines + MaxNodes)

Px(n) == n * Scale

MathMax(a, b) == IF a >= b THEN a ELSE b

MathMin(a, b) == IF a <= b THEN a ELSE b

\* Variant: the padding is added once instead of on both sides.
NodeWidthSinglePadding(node) ==
  Px(MathMax(MIN_NODE_WIDTH, Len(node.text) * CHAR_WIDTH + NODE_PADDING))

\* Math.max(100, node.text.length * 8 + NODE_PADDING * 2)
NodeWidth(node) ==
  Px(MathMax(MIN_NODE_WIDTH, Len(node.text) * CHAR_WIDTH + NODE_PADDING * 2))

\* Variant: the node's own height, whatever its children.
OwnHeight(pos) == pos.height

RECURSIVE GetSubtreeHeight(_)
GetSubtreeHeight(pos) ==
  IF Len(pos.children) = 0 THEN pos.height
  ELSE LET lastChild == pos.children[Len(pos.children)]
       IN  lastChild.y + GetSubtreeHeight(lastChild) - pos.y

\* Variant: the cursor advances by the child's own height.
NextCursorOwnHeight(childPos) == childPos.y + childPos.height + Px(SIBLING_GAP)

\* currentY = childPos.y + getSubtreeHeight(childPos) + SIBLING_GAP
NextCursor(childPos) ==
  childPos.y + GetSubtreeHeight(childPos) + Px(SIBLING_GAP)

\* Variant: the midpoint itself, half the node's height not subtracted.
CenterYMidpoint(childPositions, height) ==
  LET firstChildY == childPositions[1].y
      lastChild == childPositions[Len(childPositions)]
      lastChildBottom == lastChild.y + GetSubtreeHeight(lastChild)
  IN  (firstChildY + lastChildBottom) \div 2

\* y = (firstChildY + lastChildBottom) / 2 - height / 2
CenterY(childPositions, height) ==
  LET firstChildY == childPositions[1].y
      lastChild == childPositions[Len(childPositions)]
      lastChildBottom == lastChild.y + GetSubtreeHeight(lastChild)
  IN  (firstChildY + lastChildBottom) \div 2 - height \div 2

RECURSIVE LayoutNode(_, _, _)
RECURSIVE LayoutChildren(_, _, _, _)
\* Variant: child positions are prepended (unshift) instead of pushed.
LayoutChildrenPrepend(children, k, x, currentY) ==
  IF k > Len(children) THEN <<>>
  ELSE LET childPos == LayoutNode(children[k], x, currentY)
       IN  LayoutChildren(children, k + 1, x, NextCursor(childPos)) \o <<childPos>>

\* The for loop over node.children, from child k on, with cursor currentY.
LayoutChildren(children, k, x, currentY) ==
  IF k > Len(children) THEN <<>>
  ELSE LET childPos == LayoutNode(children[k], x, currentY)
       IN  <<childPos>> \o LayoutChildren(children, k + 1, x, NextCursor(childPos))

LayoutNode(node, x, startY) ==
  LET width == NodeWidth(node)
      height == Px(NODE_HEIGHT)
      childPositions == LayoutChildren(node.children, 1, x + Px(LEVEL_GAP), startY)
      y == IF Len(childPositions) > 0 THEN CenterY(childPositions, height)
           ELSE startY
  IN  [node |-> node, x |-> x, y |-> y, width |-> width, height |-> height,
       children |-> childPositions]

CalculateLayout(node) == LayoutNode(node, 0, 0)

(***************************************************************************)
(* Geometry utilities.                                                     *)
(***************************************************************************)
RECURSIVE FlattenPositions(_)
RECURSIVE FlattenChildren(_, _)
FlattenChildren(children, k) ==
  IF k > Len(children) THEN <<>>
  ELSE FlattenPositions(children[k]) \o FlattenChildren(children, k + 1)

FlattenPositions(root) == <<root>> \o FlattenChildren(root.children, 1)

\* Numbers extended by the two infinities getBoundingBox starts from.
Fin(n) == [fin |-> TRUE, v |-> n]

PosInfinity == [fin |-> FALSE, v |-> 1]

NegInfinity == [fin |-> FALSE, v |-> -1]

\* Math.min(acc, n) and Math.max(acc, n) for a finite n.
ExtMin(acc, n) ==
  IF acc.fin THEN Fin(MathMin(acc.v, n)) ELSE IF acc.v > 0 THEN Fin(n) ELSE acc

ExtMax(acc, n) ==
  IF acc.fin THEN Fin(MathMax(acc.v, n)) ELSE IF acc.v < 0 THEN Fin(n) ELSE acc

\* a - b; the operands are finite whenever the tree has a position.
ExtSub(a, b) ==
  IF a.fin /\ b.fin THEN Fin(a.v - b.v) ELSE IF a.fin THEN [fin |-> FALSE, v |-> -b.v] ELSE a

\* Variant: the far edges are taken from the corner, not corner plus size.
BoxStepCorners(box, pos) ==
  [minX |-> ExtMin(box.minX, pos.x),
   minY |-> ExtMin(box.minY, pos.y),
   maxX |-> ExtMax(box.maxX, pos.x),
   maxY |-> ExtMax(box.maxY, pos.y)]

\* The body of the for loop of getBoundingBox.
BoxStep(box, pos) ==
  [minX |-> ExtMin(box.minX, pos.x),
   minY |-> ExtMin(box.minY, pos.y),
   maxX |-> ExtMax(box.maxX, pos.x + pos.width),
   maxY |-> ExtMax(box.maxY, pos.y + pos.height)]

RECURSIVE BoxFold(_, _, _)
BoxFold(box, positions, k) ==
  IF k > Len(positions) THEN box
  ELSE BoxFold(BoxStep(box, positions[k]), positions, k + 1)

GetBoundingBox(root) ==
  LET box == BoxFold([minX |-> PosInfinity, minY |-> PosInfinity,
                      maxX |-> NegInfinity, maxY |-> NegInfinity],
                     FlattenPositions(root), 1)
  IN  [minX |-> box.minX, minY |-> box.minY, maxX |-> box.maxX, maxY |-> box.maxY,
       width |-> ExtSub(box.maxX, box.minX),
       height |-> ExtSub(box.maxY, box.minY)]

RECURSIVE CountNodes(_)
RECURSIVE CountChildren(_, _, _)
CountChildren(children, k, count) ==
  IF k > Len(children) THEN count
  ELSE CountChildren(children, k + 1, count + CountNodes(children[k]))

CountNodes(node) == CountChildren(node.children, 1, 1)

RECURSIVE GetMaxDepth(_, _)
RECURSIVE MaxChildDepth(_, _, _, _)
\* The for loop of getMaxDepth, from child k on.
MaxChildDepth(children, k, maxChildDepth, currentDepth) ==
  IF k > Len(children) THEN maxChildDepth
  ELSE MaxChildDepth(children, k + 1,
                     MathMax(maxChildDepth, GetMaxDepth(children[k], currentDepth + 1)),
                     currentDepth)

\* Variant: a leaf counts itself, so nodes are counted instead of edges.
GetMaxDepthCountingNodes(node, currentDepth) ==
  IF Len(node.children) = 0 THEN currentDepth + 1
  ELSE MaxChildDepth(node.children, 1, currentDepth, currentDepth)

GetMaxDepth(node, currentDepth) ==
  IF Len(node.children) = 0 THEN currentDepth
  ELSE MaxChildDepth(node.children, 1, currentDepth, currentDepth)

(***************************************************************************)
(* Inputs.  Every text is a join of lines.  MessyTexts exercises the       *)
(* line scanner: odd and even indentation, tabs, inner and trailing        *)
(* blanks, empty and all-whitespace lines, first lines that are indented.  *)
(* OutlineTexts are the regular outlines of every tree shape of up to      *)
(* MaxNodes nodes, with labels on both sides of the minimum-width floor.   *)
(***************************************************************************)
Cores == {<<"a">>, <<TAB, TAB, "b", SP, "c", SP>>}

BlankLines == {<<>>, <<SP, TAB>>}

MessyLines == {Spaces(n) \o c : n \in 0..MaxIndent, c \in Cores} \cup BlankLines

MessyTexts ==
  {JoinLines(ls) : ls \in UNION {[1..k -> MessyLines] : k \in 1..MaxLines}}

ShortLabel == <<"h", "e", "l", "l", "o">>

\* 15 characters: wider than LEVEL_GAP once padded.
LongLabel ==
  <<"m", "i", "n", "d", "m", "a", "p", " ", "o", "f", " ", "m", "a", "p", "s">>

Labels == {ShortLabel, LongLabel}

DepthSeqs(n) ==
  {d \in [1..n -> 0..(n - 1)] :
     /\ d[1] = 0
     /\ \A j \in 2..n : d[j] >= 1 /\ d[j] <= d[j - 1] + 1}

OutlineOf(d, l) == JoinLines([j \in DOMAIN d |-> Spaces(2 * d[j]) \o l[j]])

OutlineTexts ==
  UNION {UNION {{OutlineOf(d, l) : l \in [1..n -> Labels]} : d \in DepthSeqs(n)}
           : n \in 1..MaxNodes}

InputTexts == MessyTexts \cup OutlineTexts

(***************************************************************************)
(* State.                                                                  *)
(***************************************************************************)
VARIABLES
  text,         \* the argument of parseTextToTree
  pc,           \* position in the run
  parsedLines,  \* parsedLines
  heap,         \* the nodes created so far, by allocation order
  stack,        \* the ancestor stack
  i,            \* index of the next parsed line of the for loop (1-based)
  idCount,      \* number of generateId calls so far
  tree,         \* the node parseTextToTree returned
  text2,        \* treeToText(tree)
  tree2,        \* parseTextToTree(text2)
  layout,       \* calculateLayout(tree)
  bbox,         \* getBoundingBox(layout)
  count,        \* countNodes(tree)
  depth         \* getMaxDepth(tree)

coreVars == <<text, pc, parsedLines, heap, stack, i, idCount, tree, text2, tree2,
              layout, bbox, count, depth>>

(***************************************************************************)
(* The editor (MindmapEditor component and the mindmap store slice).       *)
(* A document is [id, title, content]; id 0 stands for a document without  *)
(* id.  The created_at / updated_at stamps are left out: no rule below     *)
(* reads them.  Asynchronous database calls are entries of ops, served by  *)
(* the database in the order they were issued; each entry keeps the        *)
(* currentDocument its handler closed over when it was called.  A value    *)
(* that may be null is <<>> for null and <<v>> for the value v.             *)
(***************************************************************************)
\* The number of user events (edits and button presses) explored.
MaxEvents == 4

VARIABLES
  currentDocument,    \* store: currentDocument
  hasUnsavedChanges,  \* store: hasUnsavedChanges
  savedDocuments,     \* store: savedDocuments
  saveStatus,         \* component state: saveStatus
  db,                 \* the mindmaps table: a set of documents, one per id
  nextDbId,           \* the next auto-incremented key of the table
  ops,                \* asynchronous database calls not yet resumed
  timers,             \* pending setTimeout callbacks resetting saveStatus
  eventCount,         \* user events handled so far
  parsedNodes,        \* store: parsedNodes, null or a tree
  parseError,         \* store: parseError, null or a message
  effectDeps          \* the dependency the parse effect last ran with, if any

editorVars == <<currentDocument, hasUnsavedChanges, savedDocuments, saveStatus,
                db, nextDbId, ops, timers, eventCount, parsedNodes,
                parseError, effectDeps>>

vars == <<coreVars, editorVars>>

Null == <<>>

Some(v) == <<v>>

UntitledMindmap == "Untitled Mindmap"

\* The content of createNewDocument.
DefaultContent ==
  <<"R", "o", "o", "t", SP, "N", "o", "d", "e", NL, SP, SP, "C", "h", "i",
    "l", "d", SP, "1", NL, SP, SP, SP, SP, "G", "r", "a", "n", "d", "c",
    "h", "i", "l", "d", SP, "1", NL, SP, SP, SP, SP, "G", "r", "a", "n",
    "d", "c", "h", "i", "l", "d", SP, "2", NL, SP, SP, "C", "h", "i", "l",
    "d", SP, "2", NL, SP, SP, "C", "h", "i", "l", "d", SP, "3">>

\* createNewDocument()
CreateNewDocument == [id |-> 0, title |-> UntitledMindmap, content |-> DefaultContent]

\* Values the title input and the text area can be changed to.
TypedTitles == {UntitledMindmap, "T"}

TypedContents == {<<>>, <<SP>>, <<"a">>}

\* A document an earlier session left in the table.
StoredDocument == [id |-> 1, title |-> "T", content |-> <<"a">>]

\* The editor before it is mounted.
EditorIdle ==
  /\ currentDocument = CreateNewDocument
  /\ hasUnsavedChanges = FALSE
  /\ savedDocuments = <<>>
  /\ saveStatus = "idle"
  /\ db = {}
  /\ nextDbId = 1
  /\ ops = <<>>
  /\ timers = 0
  /\ eventCount = 0
  /\ parsedNodes = Null
  /\ parseError = Null
  /\ effectDeps = Null

NoNode == NewNode(0, <<>>)

NoLayout == [node |-> NoNode, x |-> 0, y |-> 0, width |-> 0, height |-> 0,
             children |-> <<>>]

NoBox == [minX |-> PosInfinity, minY |-> PosInfinity, maxX |-> NegInfinity,
          maxY |-> NegInfinity, width |-> NegInfinity, height |-> NegInfinity]

Init ==
  /\ text \in InputTexts
  /\ pc = "start"
  /\ parsedLines = <<>>
  /\ heap = <<>>
  /\ stack = <<>>
  /\ i = 0
  /\ idCount = 0
  /\ tree = NoNode
  /\ text2 = <<>>
  /\ tree2 = NoNode
  /\ layout = NoLayout
  /\ bbox = NoBox
  /\ count = 0
  /\ depth = 0
  /\ EditorIdle

(***************************************************************************)
(* parseTextToTree, statement by statement.                                *)
(***************************************************************************)
\* split and forEach: lines 129-148
ScanLines ==
  /\ pc = "start"
  /\ parsedLines' = ParseLines(text)
  /\ pc' = "scanned"
  /\ UNCHANGED <<text, heap, stack, i, idCount, tree, text2, tree2, layout,
                 bbox, count, depth>>
  /\ UNCHANGED editorVars

\* if (parsedLines.length === 0) return placeholder: lines 150-156
ReturnEmpty ==
  /\ pc = "scanned"
  /\ Len(parsedLines) = 0
  /\ idCount' = idCount + 1
  /\ heap' = <<NewNode(GenerateId(idCount + 1), EmptyMindmapText)>>
  /\ tree' = NewNode(GenerateId(idCount + 1), EmptyMindmapText)
  /\ pc' = "returned"
  /\ UNCHANGED <<text, parsedLines, stack, i, text2, tree2, layout, bbox,
                 count, depth>>
  /\ UNCHANGED editorVars

\* root and initial stack: lines 159-167
CreateRoot ==
  /\ pc = "scanned"
  /\ Len(parsedLines) # 0
  /\ idCount' = idCount + 1
  /\ heap' = RootState(parsedLines[1], GenerateId(idCount + 1)).heap
  /\ stack' = RootState(parsedLines[1], GenerateId(idCount + 1)).stack
  /\ i' = 2
  /\ pc' = "loop"
  /\ UNCHANGED <<text, parsedLines, tree, text2, tree2, layout, bbox, count,
                 depth>>
  /\ UNCHANGED editorVars

\* one iteration of the for loop: lines 169-189
AttachNext ==
  /\ pc = "loop"
  /\ i <= Len(parsedLines)
  /\ LET st == AttachLine([heap |-> heap, stack |-> stack], parsedLines[i],
                          GenerateId(idCount + 1))
     IN  heap' = st.heap /\ stack' = st.stack
  /\ idCount' = idCount + 1
  /\ i' = i + 1
  /\ UNCHANGED <<text, pc, parsedLines, tree, text2, tree2, layout, bbox,
                 count, depth>>
  /\ UNCHANGED editorVars

\* return root: line 191
ReturnRoot ==
  /\ pc = "loop"
  /\ i > Len(parsedLines)
  /\ tree' = NodeOf(heap, 1)
  /\ pc' = "returned"
  /\ UNCHANGED <<text, parsedLines, heap, stack, i, idCount, text2, tree2,
                 layout, bbox, count, depth>>
  /\ UNCHANGED editorVars

(***************************************************************************)
(* The other functions, applied to the parsed tree.                        *)
(***************************************************************************)
Serialize ==
  /\ pc = "returned"
  /\ text2' = TreeToText(tree, 0)
  /\ pc' = "serialized"
  /\ UNCHANGED <<text, parsedLines, heap, stack, i, idCount, tree, tree2,
                 layout, bbox, count, depth>>
  /\ UNCHANGED editorVars

Reparse ==
  /\ pc = "serialized"
  /\ tree2' = ParseTextToTree(text2, idCount)
  /\ idCount' = idCount + CountNodes(ParseTextToTree(text2, idCount))
  /\ pc' = "reparsed"
  /\ UNCHANGED <<text, parsedLines, heap, stack, i, tree, text2, layout, bbox,
                 count, depth>>
  /\ UNCHANGED editorVars

Layout ==
  /\ pc = "reparsed"
  /\ layout' = CalculateLayout(tree)
  /\ pc' = "laid"
  /\ UNCHANGED <<text, parsedLines, heap, stack, i, idCount, tree, text2,
                 tree2, bbox, count, depth>>
  /\ UNCHANGED editorVars

Measure ==
  /\ pc = "laid"
  /\ bbox' = GetBoundingBox(layout)
  /\ pc' = "boxed"
  /\ UNCHANGED <<text, parsedLines, heap, stack, i, idCount, tree, text2,
                 tree2, layout, count, depth>>
  /\ UNCHANGED editorVars

Count ==
  /\ pc = "boxed"
  /\ count' = CountNodes(tree)
  /\ depth' = GetMaxDepth(tree, 0)
  /\ pc' = "done"
  /\ UNCHANGED <<text, parsedLines, heap, stack, i, idCount, tree, text2,
                 tree2, layout, bbox>>
  /\ UNCHANGED editorVars

Next ==
  \/ ScanLines
  \/ ReturnEmpty
  \/ CreateRoot
  \/ AttachNext
  \/ ReturnRoot
  \/ Serialize
  \/ Reparse
  \/ Layout
  \/ Measure
  \/ Count

Spec == Init /\ [][Next]_vars

(***************************************************************************)
(* The editor's operations.                                                *)
(***************************************************************************)
\* The core is not running while the editor is exercised.
CoreIdle ==
  /\ text = <<>>
  /\ pc = "idle"
  /\ parsedLines = <<>>
  /\ heap = <<>>
  /\ stack = <<>>
  /\ i = 0
  /\ idCount = 0
  /\ tree = NoNode
  /\ text2 = <<>>
  /\ tree2 = NoNode
  /\ layout = NoLayout
  /\ bbox = NoBox
  /\ count = 0
  /\ depth = 0

\* An asynchronous database call: the handler's closure and the call's fate.
NewOp(kind, doc, target) ==
  [kind |-> kind, doc |-> doc, target |-> target, phase |-> "pending",
   newId |-> 0, snapshot |-> <<>>]

\* Documents shared through the URL: title and content, no id.
SharedDocuments == {[id |-> 0, title |-> "T", content |-> c] : c \in TypedContents}

\* The editor once mounted: the store's initial state, or the shared document
\* set by the mount effect, and loadSavedDocuments() already called.
EditorInit ==
  /\ CoreIdle
  /\ currentDocument \in {CreateNewDocument} \cup SharedDocuments
  /\ hasUnsavedChanges = FALSE
  /\ savedDocuments = <<>>
  /\ saveStatus = "idle"
  /\ db \in {{}, {StoredDocument}}
  /\ nextDbId = Cardinality(db) + 1
  /\ ops = <<NewOp("list", CreateNewDocument, 0)>>
  /\ timers = 0
  /\ eventCount = 0
  /\ parsedNodes = Null
  /\ parseError = Null
  /\ effectDeps = Null

\* updateContent(content), called by handleContentChange.
UpdateContent(content) ==
  /\ eventCount < MaxEvents
  /\ content # currentDocument.content
  /\ currentDocument' = [currentDocument EXCEPT !.content = content]
  /\ hasUnsavedChanges' = TRUE
  /\ eventCount' = eventCount + 1
  /\ UNCHANGED <<savedDocuments, saveStatus, db, nextDbId, ops, timers>>
  /\ UNCHANGED <<parsedNodes, parseError, effectDeps>>
  /\ UNCHANGED coreVars

\* updateTitle(title), called by handleTitleChange.
UpdateTitle(title) ==
  /\ eventCount < MaxEvents
  /\ title # currentDocument.title
  /\ currentDocument' = [currentDocument EXCEPT !.title = title]
  /\ hasUnsavedChanges' = TRUE
  /\ eventCount' = eventCount + 1
  /\ UNCHANGED <<savedDocuments, saveStatus, db, nextDbId, ops, timers>>
  /\ UNCHANGED <<parsedNodes, parseError, effectDeps>>
  /\ UNCHANGED coreVars

\* newDocument(), the New button.
NewDocument ==
  /\ eventCount < MaxEvents
  /\ currentDocument' = CreateNewDocument
  /\ hasUnsavedChanges' = FALSE
  /\ eventCount' = eventCount + 1
  /\ UNCHANGED <<savedDocuments, saveStatus, db, nextDbId, ops, timers>>
  /\ parsedNodes' = Null
  /\ parseError' = Null
  /\ UNCHANGED effectDeps
  /\ UNCHANGED coreVars

\* handleLoad(doc) for a document of the load dialog: setCurrentDocument(doc).
HandleLoad(k) ==
  /\ eventCount < MaxEvents
  /\ currentDocument' = savedDocuments[k]
  /\ hasUnsavedChanges' = FALSE
  /\ eventCount' = eventCount + 1
  /\ UNCHANGED <<savedDocuments, saveStatus, db, nextDbId, ops, timers>>
  /\ parseError' = Null
  /\ UNCHANGED <<parsedNodes, effectDeps>>
  /\ UNCHANGED coreVars

\* handleSave up to its await: the Save button is enabled unless
\* saveStatus is 'saving'.
HandleSave ==
  /\ saveStatus # "saving"
  /\ eventCount < MaxEvents
  /\ saveStatus' = "saving"
  /\ ops' = Append(ops, NewOp("save", currentDocument, currentDocument.id))
  /\ eventCount' = eventCount + 1
  /\ UNCHANGED <<currentDocument, hasUnsavedChanges, savedDocuments, db,
                 nextDbId, timers>>
  /\ UNCHANGED <<parsedNodes, parseError, effectDeps>>
  /\ UNCHANGED coreVars

\* handleDelete(id) up to its await, for a document of the load dialog.
HandleDelete(k) ==
  /\ eventCount < MaxEvents
  /\ savedDocuments[k].id # 0
  /\ ops' = Append(ops, NewOp("delete", currentDocument, savedDocuments[k].id))
  /\ eventCount' = eventCount + 1
  /\ UNCHANGED <<currentDocument, hasUnsavedChanges, savedDocuments,
                 saveStatus, db, nextDbId, timers>>
  /\ UNCHANGED <<parsedNodes, parseError, effectDeps>>
  /\ UNCHANGED coreVars

\* The stored form of a document (docData).
DocData(doc, id) == [id |-> id, title |-> doc.title, content |-> doc.content]

\* db.mindmaps.put(doc): replaces the row of doc.id or creates it.
DbPut(table, doc) == {d \in table : d.id # doc.id} \cup {doc}

\* db.mindmaps.delete(id)
DbDelete(table, id) == {d \in table : d.id # id}

RECURSIVE ToArray(_)
\* db.mindmaps.toArray(): the rows in key order.
ToArray(table) ==
  IF table = {} THEN <<>>
  ELSE LET first == CHOOSE d \in table : \A e \in table : d.id <= e.id
       IN <<first>> \o ToArray(table \ {first})

\* The database serves the oldest pending call.
DbFulfil ==
  /\ ops # <<>>
  /\ ops[1].phase = "pending"
  /\ LET op == ops[1]
     IN \/ /\ op.kind = "save"
           /\ op.target # 0
           /\ db' = DbPut(db, DocData(op.doc, op.target))
           /\ ops' = [ops EXCEPT ![1].phase = "fulfilled"]
           /\ UNCHANGED nextDbId
        \/ /\ op.kind = "save"
           /\ op.target = 0
           /\ db' = db \cup {DocData(op.doc, nextDbId)}
           /\ ops' = [ops EXCEPT ![1].phase = "fulfilled", ![1].newId = nextDbId]
           /\ nextDbId' = nextDbId + 1
        \/ /\ op.kind = "delete"
           /\ db' = DbDelete(db, op.target)
           /\ ops' = [ops EXCEPT ![1].phase = "fulfilled"]
           /\ UNCHANGED nextDbId
        \/ /\ op.kind = "list"
           /\ ops' = [ops EXCEPT ![1].phase = "fulfilled",
                                 ![1].snapshot = ToArray(db)]
           /\ UNCHANGED <<db, nextDbId>>
  /\ UNCHANGED <<currentDocument, hasUnsavedChanges, savedDocuments,
                 saveStatus, timers, eventCount>>
  /\ UNCHANGED <<parsedNodes, parseError, effectDeps>>
  /\ UNCHANGED coreVars

\* The database rejects the oldest pending call.
DbReject ==
  /\ ops # <<>>
  /\ ops[1].phase = "pending"
  /\ ops' = [ops EXCEPT ![1].phase = "rejected"]
  /\ UNCHANGED <<currentDocument, hasUnsavedChanges, savedDocuments,
                 saveStatus, db, nextDbId, timers, eventCount>>
  /\ UNCHANGED <<parsedNodes, parseError, effectDeps>>
  /\ UNCHANGED coreVars

\* loadSavedDocuments after its await.
LoadSavedDocuments ==
  /\ ops # <<>>
  /\ ops[1].kind = "list"
  /\ ops[1].phase # "pending"
  /\ savedDocuments' = IF ops[1].phase = "fulfilled" THEN ops[1].snapshot
                       ELSE savedDocuments
  /\ ops' = Tail(ops)
  /\ UNCHANGED <<currentDocument, hasUnsavedChanges, saveStatus, db, nextDbId,
                 timers, eventCount>>
  /\ UNCHANGED <<parsedNodes, parseError, effectDeps>>
  /\ UNCHANGED coreVars

\* updateSavedDocument(id, doc)
UpdateSavedDocument(docs, id, doc) ==
  [k \in 1..Len(docs) |-> IF docs[k].id = id THEN doc ELSE docs[k]]

\* removeSavedDocument(id)
RemoveSavedDocument(docs, id) == SelectSeq(docs, LAMBDA d : d.id # id)

\* handleSave after its await, the write fulfilled: the statements up to the
\* setTimeout, on the currentDocument the handler closed over.
SaveCompletes ==
  /\ ops # <<>>
  /\ ops[1].kind = "save"
  /\ ops[1].phase = "fulfilled"
  /\ LET op == ops[1]
         newDoc == [op.doc EXCEPT !.id = op.newId]
     IN IF op.doc.id # 0
        THEN /\ savedDocuments' = UpdateSavedDocument(savedDocuments, op.doc.id, op.doc)
             /\ UNCHANGED <<currentDocument, parseError>>
        ELSE /\ savedDocuments' = Append(savedDocuments, newDoc)
             /\ currentDocument' = newDoc
             /\ parseError' = Null
  /\ hasUnsavedChanges' = FALSE
  /\ saveStatus' = "saved"
  /\ timers' = timers + 1
  /\ ops' = Tail(ops)
  /\ UNCHANGED <<db, nextDbId, eventCount>>
  /\ UNCHANGED <<parsedNodes, effectDeps>>
  /\ UNCHANGED coreVars

\* handleSave's catch block.
SaveFails ==
  /\ ops # <<>>
  /\ ops[1].kind = "save"
  /\ ops[1].phase = "rejected"
  /\ saveStatus' = "error"
  /\ timers' = timers + 1
  /\ ops' = Tail(ops)
  /\ UNCHANGED <<currentDocument, hasUnsavedChanges, savedDocuments, db,
                 nextDbId, eventCount>>
  /\ UNCHANGED <<parsedNodes, parseError, effectDeps>>
  /\ UNCHANGED coreVars

\* handleDelete after its await.
DeleteCompletes ==
  /\ ops # <<>>
  /\ ops[1].kind = "delete"
  /\ ops[1].phase # "pending"
  /\ LET op == ops[1]
     IN IF op.phase = "fulfilled"
        THEN /\ savedDocuments' = RemoveSavedDocument(savedDocuments, op.target)
             /\ IF op.doc.id = op.target
                THEN /\ currentDocument' = CreateNewDocument
                     /\ parsedNodes' = Null
                     /\ hasUnsavedChanges' = FALSE
                     /\ parseError' = Null
                ELSE UNCHANGED <<currentDocument, hasUnsavedChanges,
                                 parsedNodes, parseError>>
        ELSE UNCHANGED <<currentDocument, hasUnsavedChanges, savedDocuments,
                         parsedNodes, parseError>>
  /\ ops' = Tail(ops)
  /\ UNCHANGED <<saveStatus, db, nextDbId, timers, eventCount>>
  /\ UNCHANGED effectDeps
  /\ UNCHANGED coreVars

\* A callback scheduled by setTimeout(() => setSaveStatus('idle'), ...) runs.
ResetSaveStatus ==
  /\ timers > 0
  /\ saveStatus' = "idle"
  /\ timers' = timers - 1
  /\ UNCHANGED <<currentDocument, hasUnsavedChanges, savedDocuments, db,
                 nextDbId, ops, eventCount>>
  /\ UNCHANGED <<parsedNodes, parseError, effectDeps>>
  /\ UNCHANGED coreVars

RECURSIVE AttachThrows(_, _, _, _)
\* Whether the for loop reads stack[stack.length - 1].node on an empty stack,
\* the one statement of parseTextToTree that can throw.
AttachThrows(st, pls, k, idBase) ==
  IF k > Len(pls) THEN FALSE
  ELSE IF PopStack(st.stack, pls[k].level) = <<>> THEN TRUE
  ELSE AttachThrows(AttachLine(st, pls[k], GenerateId(idBase + k)), pls, k + 1,
                    idBase)

\* Whether parseTextToTree(text) throws.
ParseThrows(content) ==
  LET pls == ParseLines(content)
  IN  /\ Len(pls) > 0
      /\ AttachThrows(RootState(pls[1], GenerateId(1)), pls, 2, 0)

\* The dependency of the parse effect: currentDocument?.content.
ContentDep == Some(currentDocument.content)

\* The parse effect: React runs it after mount and after a render in which
\* its dependency differs from the one it last ran with.
ParseEffect ==
  /\ effectDeps # ContentDep
  /\ effectDeps' = ContentDep
  /\ IF currentDocument.content # <<>>
     THEN IF ~ParseThrows(currentDocument.content)
          THEN /\ parsedNodes' = Some(ParseTextToTree(currentDocument.content, 0))
               /\ parseError' = Null
          ELSE /\ parseError' = Some("Parse error")
               /\ parsedNodes' = Null
     ELSE /\ parsedNodes' = Null
          /\ UNCHANGED parseError
  /\ UNCHANGED <<currentDocument, hasUnsavedChanges, savedDocuments,
                 saveStatus, db, nextDbId, ops, timers, eventCount>>
  /\ UNCHANGED coreVars

EditorNext ==
  \/ \E content \in TypedContents : UpdateContent(content)
  \/ \E title \in TypedTitles : UpdateTitle(title)
  \/ NewDocument
  \/ \E k \in 1..Len(savedDocuments) : HandleLoad(k)
  \/ HandleSave
  \/ \E k \in 1..Len(savedDocuments) : HandleDelete(k)
  \/ DbFulfil
  \/ DbReject
  \/ LoadSavedDocuments
  \/ SaveCompletes
  \/ SaveFails
  \/ DeleteCompletes
  \/ ResetSaveStatus
  \/ ParseEffect

SpecEditor == EditorInit /\ [][EditorNext]_vars

(***************************************************************************)
(* Auxiliary notions used to state the properties.                         *)
(***************************************************************************)
RECURSIVE SameShapeAndText(_, _)
SameShapeAndText(a, b) ==
  /\ a.text = b.text
  /\ Len(a.children) = Len(b.children)
  /\ \A j \in 1..Len(a.children) : SameShapeAndText(a.children[j], b.children[j])

RECURSIVE NodesOf(_)
NodesOf(node) ==
  {node} \cup UNION {NodesOf(node.children[j]) : j \in 1..Len(node.children)}

RECURSIVE DepthsOf(_, _)
DepthsOf(node, d) ==
  {d} \cup UNION {DepthsOf(node.children[j], d + 1) : j \in 1..Len(node.children)}

RECURSIVE PositionsOf(_)
PositionsOf(pos) ==
  {pos} \cup UNION {PositionsOf(pos.children[j]) : j \in 1..Len(pos.children)}

\* The halvings of CenterY lose nothing in the model's units.
LayoutExact ==
  \A p \in PositionsOf(layout) :
    Len(p.children) > 0 =>
      LET lastChild == p.children[Len(p.children)]
      IN  /\ (p.children[1].y + lastChild.y + GetSubtreeHeight(lastChild)) % 2 = 0
          /\ p.height % 2 = 0

\* Lowest bottom edge and topmost y over a whole position subtree.
MaxBottom(pos) == SeqMax({q.y + q.height : q \in PositionsOf(pos)})

MinTop(pos) == SeqMin({q.y : q \in PositionsOf(pos)})

\* Number of lines of the text that hold a non-whitespace character,
\* counted on the characters: a character's line is 1 + the breaks before it.
LineOfChar(t, p) == 1 + Cardinality({q \in 1..(p - 1) : t[q] = NL})

NonBlankLineCount(t) ==
  Cardinality({LineOfChar(t, p) : p \in {q \in 1..Len(t) : t[q] \notin WhiteSpace}})

IsTrimmed(t) ==
  /\ Len(t) > 0
  /\ t[1] \notin WhiteSpace
  /\ t[Len(t)] \notin WhiteSpace

\* The heap index the parent-selection rule names for parsed line j.
ExpectedParent(pls, j) ==
  LET smaller == {k \in 2..(j - 1) : pls[k].level < pls[j].level}
  IN  IF smaller = {} THEN 1 ELSE SeqMax(smaller)

\* The (parent, slot) pairs under which heap node k is registered.
ParentSlots(h, k) ==
  {<<p, j>> \in (1..Len(h)) \X (1..Len(h)) :
     j <= Len(h[p].children) /\ h[p].children[j] = k}

(***************************************************************************)
(* C1: re-parsing treeToText(t) of a parsed tree t gives a tree of the     *)
(* same shape (same number of children at every node, same order) and the  *)
(* same text at every node; ids are not compared.                          *)
(***************************************************************************)
C1_RoundTrip ==
  pc = "reparsed" => SameShapeAndText(tree, tree2)

C1_Witness ==
  /\ pc = "reparsed"
  /\ text # text2
  /\ GetMaxDepth(tree, 0) >= 3
  /\ tree.id # tree2.id
  /\ SameShapeAndText(tree, tree2)

(***************************************************************************)
(* C2: a text with k >= 1 non-blank lines parses to a tree of exactly k    *)
(* nodes.                                                                  *)
(***************************************************************************)
C2_NodePerNonBlankLine ==
  (pc = "done" /\ NonBlankLineCount(text) >= 1)
    => count = NonBlankLineCount(text)

C2_Witness ==
  /\ pc = "done"
  /\ count = 3
  /\ Len(Split(text)) = 4
  /\ Len(tree.children) = 2

(***************************************************************************)
(* C3: the first non-blank line is the root whatever its level; every      *)
(* later non-blank line becomes the last child of the most recent          *)
(* preceding non-root line of strictly smaller level, or of the root when  *)
(* there is none; children are in document order.                          *)
(***************************************************************************)
C3_ParentSelection ==
  pc = "loop" =>
    /\ Len(heap) = i - 1
    /\ \A j \in 1..Len(heap) : heap[j].text = parsedLines[j].text
    /\ ParentSlots(heap, 1) = {}
    /\ \A j \in 2..Len(heap) :
         /\ \E s \in 1..Len(heap) :
              ParentSlots(heap, j) = {<<ExpectedParent(parsedLines, j), s>>}
         /\ \A p \in 1..Len(heap) : \A a, b \in 1..Len(heap[p].children) :
              a < b => heap[p].children[a] < heap[p].children[b]
    /\ Len(heap) >= 2 =>
         LET sibs == heap[ExpectedParent(parsedLines, Len(heap))].children
         IN  sibs[Len(sibs)] = Len(heap)

C3_Witness ==
  /\ pc = "loop"
  /\ i = 5
  /\ parsedLines[1].level = 1
  /\ parsedLines[2].level = 0
  /\ parsedLines[3].level = 2
  /\ parsedLines[4].level = 1
  /\ heap[1].children = <<2>>
  /\ heap[2].children = <<3, 4>>

(***************************************************************************)
(* C4: a text without a non-blank line parses to a single node with text   *)
(* "Empty Mindmap" and no children.                                        *)
(***************************************************************************)
C4_EmptyPlaceholder ==
  (pc = "returned" /\ \A p \in 1..Len(text) : text[p] \in WhiteSpace)
    => /\ tree.text = EmptyMindmapText
       /\ tree.children = <<>>

C4_Witness ==
  /\ pc = "returned"
  /\ Len(text) >= 4
  /\ \A p \in 1..Len(text) : text[p] \in WhiteSpace
  /\ \E p \in 1..Len(text) : text[p] = TAB
  /\ tree.text = EmptyMindmapText

(***************************************************************************)
(* C5: parseTextToTree is total: on every input the ancestor stack is      *)
(* never empty when its top is read, the run reaches its return, and the   *)
(* result is a rooted tree (every node but the root has exactly one        *)
(* parent, created before it) whose texts are non-empty and trimmed.       *)
(***************************************************************************)
WellFormedHeap(h) ==
  /\ Len(h) >= 1
  /\ ParentSlots(h, 1) = {}
  /\ \A k \in 2..Len(h) :
       /\ Cardinality(ParentSlots(h, k)) = 1
       /\ \A s \in ParentSlots(h, k) : s[1] < k
  /\ \A k \in 1..Len(h) : IsTrimmed(h[k].text)

StackUsable ==
  /\ Len(stack) >= 1
  /\ \A k \in 1..Len(stack) : stack[k].node \in 1..Len(heap)

C5_Safe ==
  /\ pc = "loop" => StackUsable
  /\ pc = "returned" =>
       /\ WellFormedHeap(heap)
       /\ tree = NodeOf(heap, 1)
       /\ CountNodes(tree) = Len(heap)
       /\ \A n \in NodesOf(tree) : IsTrimmed(n.text)

\* parseTextToTree has not returned yet.
ParseRunning == pc \in {"start", "scanned", "loop"}

\* The statements after the line scan.
BuildStep == ReturnEmpty \/ CreateRoot \/ AttachNext \/ ReturnRoot

\* Number of statements parseTextToTree has at most left to run.
ParseVariant ==
  CASE pc = "start" -> Len(text) + 3
    [] pc = "scanned" -> Len(parsedLines) + 1
    [] pc = "loop" -> Len(parsedLines) + 2 - i
    [] OTHER -> 0

C5_Total ==
  /\ []C5_Safe
  /\ [](ParseRunning => ParseVariant > 0)
  /\ [](pc \in {"scanned", "loop"} => ENABLED BuildStep)
  /\ [][ParseRunning => ParseVariant' < ParseVariant]_vars

C5_Witness ==
  /\ pc = "returned"
  /\ Len(heap) = 4
  /\ parsedLines[1].level = 2
  /\ parsedLines[2].level = 0
  /\ parsedLines[3].level = 2
  /\ parsedLines[4].level = 0
  /\ \E k \in 1..4 : Len(heap[k].text) = 3

(***************************************************************************)
(* C6: sibling subtrees never overlap vertically: for siblings A before B  *)
(* the lowest bottom edge in A's subtree plus SIBLING_GAP is at most the   *)
(* topmost y in B's subtree; A.y + subtreeHeight(A) is the lowest bottom   *)
(* edge of A's subtree and the cursor B is laid out at is the topmost y    *)
(* of B's subtree.                                                         *)
(***************************************************************************)
C6_NoSiblingOverlap ==
  pc = "laid" =>
    \A p \in PositionsOf(layout) :
      /\ p.y + GetSubtreeHeight(p) = MaxBottom(p)
      /\ Len(p.children) > 0 => MinTop(p.children[1]) = MinTop(p)
      /\ \A a, b \in 1..Len(p.children) :
           a < b =>
             /\ MaxBottom(p.children[a]) + Px(SIBLING_GAP) <= MinTop(p.children[b])
             /\ b = a + 1 => MinTop(p.children[b]) = NextCursor(p.children[a])

C6_Witness ==
  /\ pc = "laid"
  /\ Len(layout.children) = 2
  /\ Len(layout.children[1].children) = 2
  /\ Len(layout.children[2].children) = 1
  /\ layout.children[1].y > 0
  /\ MaxBottom(layout.children[1]) + Px(SIBLING_GAP) = MinTop(layout.children[2])

(***************************************************************************)
(* C7 as stated: for adjacent siblings A, B the gap between                *)
(* A.y + subtreeHeight(A) and B's own top edge B.y is exactly SIBLING_GAP, *)
(* whatever the number of children of A and B.                             *)
(***************************************************************************)
C7_GapToOwnTop ==
  pc = "laid" =>
    \A p \in PositionsOf(layout) : \A a \in 1..(Len(p.children) - 1) :
      p.children[a + 1].y - (p.children[a].y + GetSubtreeHeight(p.children[a]))
        = Px(SIBLING_GAP)

\* No node of the subtree has more than one child.
IsChain(pos) == \A q \in PositionsOf(pos) : Len(q.children) <= 1

(***************************************************************************)
(* C7 amended: for adjacent siblings A, B the gap between                  *)
(* A.y + subtreeHeight(A) and the top of B's subtree, taken as the         *)
(* smallest y of any position in B's subtree, is exactly SIBLING_GAP; the  *)
(* gap to B's own top edge B.y is SIBLING_GAP when no node of B's subtree  *)
(* has more than one child and larger otherwise.                           *)
(***************************************************************************)
C7_GapToSubtreeTop ==
  pc = "laid" =>
    \A p \in PositionsOf(layout) : \A a \in 1..(Len(p.children) - 1) :
      LET A == p.children[a]
          B == p.children[a + 1]
          bottomA == A.y + GetSubtreeHeight(A)
      IN  /\ MinTop(B) - bottomA = Px(SIBLING_GAP)
          /\ IsChain(B) => B.y - bottomA = Px(SIBLING_GAP)
          /\ ~IsChain(B) => B.y - bottomA > Px(SIBLING_GAP)

C7_Witness ==
  /\ pc = "laid"
  /\ Len(layout.children) = 2
  /\ Len(layout.children[1].children) = 1
  /\ Len(layout.children[2].children) = 2
  /\ MinTop(layout.children[2])
       - (layout.children[1].y + GetSubtreeHeight(layout.children[1]))
       = Px(SIBLING_GAP)
  /\ layout.children[2].y
       - (layout.children[1].y + GetSubtreeHeight(layout.children[1]))
       = Px(50)

(***************************************************************************)
(* C8: the position tree mirrors the node tree: the root position holds    *)
(* the input root and, at every position p, p.children has the length of   *)
(* p.node.children and p.children[j].node is p.node.children[j].           *)
(***************************************************************************)
C8_PositionsMirrorNodes ==
  pc = "laid" =>
    /\ layout.node = tree
    /\ \A p \in PositionsOf(layout) :
         /\ Len(p.children) = Len(p.node.children)
         /\ \A j \in 1..Len(p.children) : p.children[j].node = p.node.children[j]

C8_Witness ==
  /\ pc = "laid"
  /\ Len(layout.children) = 3
  /\ Len(layout.children[2].children) = 2
  /\ layout.children[2].children[2].node = tree.children[2].children[2]
  /\ layout.children[1].node.text # layout.children[3].node.text

(***************************************************************************)
(* C9: getBoundingBox returns the minimum x and y and the maximum          *)
(* x + width and y + height over all positions, width = maxX - minX and    *)
(* height = maxY - minY; for a single node the box is the node's own       *)
(* rectangle, 100 by 40 for a text of length 5.                            *)
(***************************************************************************)
C9_BoundingBox ==
  pc = "boxed" =>
    LET ps == PositionsOf(layout)
    IN  /\ bbox.minX = Fin(SeqMin({q.x : q \in ps}))
        /\ bbox.minY = Fin(SeqMin({q.y : q \in ps}))
        /\ bbox.maxX = Fin(SeqMax({q.x + q.width : q \in ps}))
        /\ bbox.maxY = Fin(SeqMax({q.y + q.height : q \in ps}))
        /\ bbox.width = Fin(bbox.maxX.v - bbox.minX.v)
        /\ bbox.height = Fin(bbox.maxY.v - bbox.minY.v)
        /\ Len(tree.children) = 0 =>
             /\ bbox.width = Fin(layout.width)
             /\ bbox.height = Fin(layout.height)
        /\ (Len(tree.children) = 0 /\ Len(tree.text) = 5) =>
             /\ bbox.width = Fin(Px(100))
             /\ bbox.height = Fin(Px(40))

C9_Witness ==
  /\ pc = "boxed"
  /\ Len(tree.children) = 2
  /\ layout.y > 0
  /\ bbox.minY = Fin(0)
  /\ bbox.maxX.v > layout.children[1].x + Px(MIN_NODE_WIDTH)
  /\ bbox.height.v > Px(NODE_HEIGHT)

(***************************************************************************)
(* C10: getMaxDepth(node) with currentDepth 0 is the maximum number of     *)
(* edges from node down to a descendant: 0 for a leaf, 1 for a root whose  *)
(* children are all leaves, in general 1 + the maximum of the children's   *)
(* results.                                                                *)
(***************************************************************************)
C10_MaxDepth ==
  pc = "done" =>
    /\ depth = SeqMax(DepthsOf(tree, 0))
    /\ \A n \in NodesOf(tree) :
         GetMaxDepth(n, 0) =
           IF Len(n.children) = 0 THEN 0
           ELSE 1 + SeqMax({GetMaxDepth(n.children[j], 0) : j \in 1..Len(n.children)})

C10_Witness ==
  /\ pc = "done"
  /\ depth = 3
  /\ Len(tree.children) = 2
  /\ GetMaxDepth(tree.children[1], 0) = 0
  /\ GetMaxDepth(tree.children[2], 0) = 2

RECURSIVE PositionsAtDepth(_, _)
\* The positions of a subtree, each paired with its depth below the start.
PositionsAtDepth(pos, d) ==
  {<<pos, d>>} \cup
    UNION {PositionsAtDepth(pos.children[j], d + 1) : j \in 1..Len(pos.children)}

(***************************************************************************)
(* C11: every position with children has its vertical centre at the        *)
(* midpoint between its first child's top edge and the bottom of its last  *)
(* child's subtree, y = (firstChild.y + lastChild.y +                      *)
(* subtreeHeight(lastChild)) / 2 - height / 2; a position without children *)
(* keeps the cursor it was laid out at, so a childless root is at y = 0.   *)
(***************************************************************************)
C11_ParentCentering ==
  pc = "laid" =>
    /\ LayoutExact
    /\ Len(layout.children) = 0 => layout.y = 0
    /\ \A p \in PositionsOf(layout) :
         Len(p.children) > 0 =>
           LET first == p.children[1]
               last == p.children[Len(p.children)]
           IN  /\ 2 * p.y + p.height = first.y + MaxBottom(last)
               /\ p.y = (first.y + last.y + GetSubtreeHeight(last)) \div 2
                          - p.height \div 2
               /\ \A j \in 1..Len(p.children) :
                    Len(p.children[j].children) = 0 =>
                      p.children[j].y =
                        IF j = 1 THEN MinTop(p)
                        ELSE MaxBottom(p.children[j - 1]) + Px(SIBLING_GAP)

C11_Witness ==
  /\ pc = "laid"
  /\ Len(layout.children) = 2
  /\ Len(layout.children[1].children) = 2
  /\ Len(layout.children[2].children) = 0
  /\ layout.children[1].y = Px(30)
  /\ layout.children[2].y = Px(120)
  /\ layout.y = Px(75)

(***************************************************************************)
(* C12: every position at tree depth d has x = 150 * d (a child's x is     *)
(* its parent's x + LEVEL_GAP, whatever the parent's width), height = 40   *)
(* and width = max(100, 8 * length(text) + 40).                            *)
(***************************************************************************)
C12_NodeGeometry ==
  pc = "laid" =>
    /\ \A pd \in PositionsAtDepth(layout, 0) :
         /\ pd[1].x = Px(150 * pd[2])
         /\ pd[1].height = Px(40)
         /\ pd[1].width =
              IF 8 * Len(pd[1].node.text) + 40 > 100
              THEN Px(8 * Len(pd[1].node.text) + 40) ELSE Px(100)
    /\ \A p \in PositionsOf(layout) : \A j \in 1..Len(p.children) :
         p.children[j].x = p.x + Px(LEVEL_GAP)

C12_Witness ==
  /\ pc = "laid"
  /\ layout.width = Px(160)
  /\ Len(layout.children) = 1
  /\ layout.children[1].x = Px(150)
  /\ layout.children[1].width = Px(100)
  /\ \E pd \in PositionsAtDepth(layout, 0) : pd[2] = 3 /\ pd[1].x = Px(450)

\* Number of whitespace characters a line starts with, counted one by one.
LeadingWsCount(line) ==
  SeqMax({k \in 0..Len(line) : \A j \in 1..k : line[j] \in WhiteSpace})

\* Number of whitespace characters a line ends with.
TrailingWsCount(line) ==
  SeqMax({k \in 0..Len(line) :
            \A j \in (Len(line) - k + 1)..Len(line) : line[j] \in WhiteSpace})

\* The lines with line k replaced by r, line k removed, and b put after line k.
ReplaceAt(ls, k, r) == [j \in 1..Len(ls) |-> IF j = k THEN r ELSE ls[j]]

RemoveAt(ls, k) == SubSeq(ls, 1, k - 1) \o SubSeq(ls, k + 1, Len(ls))

InsertAfter(ls, k, b) == SubSeq(ls, 1, k) \o <<b>> \o SubSeq(ls, k + 1, Len(ls))

(***************************************************************************)
(* C13: the level of a non-blank line is floor(n / 2), n the number of     *)
(* its leading whitespace characters, spaces and tabs counting one each;   *)
(* a line indented by 2m+1 characters parses exactly like the same line    *)
(* indented by 2m (3 spaces = level 1, 1 space = level 0); the node text   *)
(* is the line without its leading and trailing whitespace.                *)
(***************************************************************************)
C13_LevelIsHalfIndent ==
  pc = "scanned" =>
    LET lines == Split(text)
    IN  /\ JoinLines(lines) = text
        /\ \A q \in 1..Len(parsedLines) :
             LET pl == parsedLines[q]
                 line == lines[pl.lineNumber]
                 n == LeadingWsCount(line)
             IN  /\ 2 * pl.level <= n
                 /\ n < 2 * pl.level + 2
                 /\ pl.text = SubSeq(line, n + 1, Len(line) - TrailingWsCount(line))
                 /\ n % 2 = 1 =>
                      /\ ParseLines(JoinLines(ReplaceAt(lines, pl.lineNumber, Tail(line))))
                           = parsedLines
                      /\ ParseTextToTree(JoinLines(ReplaceAt(lines, pl.lineNumber, Tail(line))), 0)
                           = ParseTextToTree(text, 0)
        /\ LevelOf(<<SP, SP, SP, "a">>) = 1
        /\ LevelOf(<<SP, "a">>) = 0

C13_Witness ==
  /\ pc = "scanned"
  /\ Len(parsedLines) = 2
  /\ Split(text)[parsedLines[2].lineNumber] = <<SP, TAB, TAB, "b", SP, "c", SP>>
  /\ parsedLines[2].level = 1
  /\ parsedLines[2].text = <<"b", SP, "c">>
  /\ parsedLines[1].level = 0
  /\ LeadingWsCount(Split(text)[parsedLines[1].lineNumber]) = 1

(***************************************************************************)
(* C14: blank lines are invisible to the parser: putting an empty or       *)
(* all-whitespace line anywhere in the text (before the first line,        *)
(* between lines, after the last) or taking one out gives a tree of the    *)
(* same shape and the same text at every node.                             *)
(***************************************************************************)
C14_BlankLinesInvisible ==
  pc = "returned" =>
    LET lines == Split(text)
    IN  /\ \A k \in 0..Len(lines) : \A b \in BlankLines :
             SameShapeAndText(
               ParseTextToTree(JoinLines(InsertAfter(lines, k, b)), 0), tree)
        /\ \A k \in 1..Len(lines) :
             (Len(lines) > 1 /\ \A j \in 1..Len(lines[k]) : lines[k][j] \in WhiteSpace)
               => SameShapeAndText(
                    ParseTextToTree(JoinLines(RemoveAt(lines, k)), 0), tree)

C14_Witness ==
  /\ pc = "returned"
  /\ Len(Split(text)) = 4
  /\ Split(text)[2] = <<SP, TAB>>
  /\ Split(text)[3] = <<SP, SP, "a">>
  /\ Len(tree.children) = 1
  /\ Len(tree.children[1].children) = 1

\* Depth of heap node k: the number of parent links up to the root.
RECURSIVE HeapDepth(_, _)
HeapDepth(h, k) ==
  IF ParentSlots(h, k) = {} THEN 0
  ELSE 1 + HeapDepth(h, (CHOOSE s \in ParentSlots(h, k) : TRUE)[1])

(***************************************************************************)
(* C15: treeToText at level 0 emits exactly countNodes(t) lines separated  *)
(* by single line breaks, without a trailing line break, one line per      *)
(* node in pre-order, the line of a node at depth d being 2*d spaces       *)
(* followed by the node's text.                                            *)
(***************************************************************************)
C15_SerializedLines ==
  pc = "serialized" =>
    /\ Cardinality({p \in 1..Len(text2) : text2[p] = NL}) = CountNodes(tree) - 1
    /\ Len(Split(text2)) = CountNodes(tree)
    /\ text2[Len(text2)] # NL
    /\ Len(heap) = CountNodes(tree)
    /\ \A k \in 1..Len(heap) :
         Split(text2)[k] = Spaces(2 * HeapDepth(heap, k)) \o heap[k].text

C15_Witness ==
  /\ pc = "serialized"
  /\ Len(heap) = 4
  /\ HeapDepth(heap, 3) = 2
  /\ HeapDepth(heap, 4) = 1
  /\ text # text2
  /\ Split(text2)[3] = <<SP, SP, SP, SP, "b", SP, "c">>

(***************************************************************************)
(* C16: after every processed line the ancestor stack is non-empty, its    *)
(* bottom entry is the root, every entry above the bottom is the last      *)
(* child of the entry below it, the top is the node just added, and the    *)
(* levels of the entries above the bottom strictly increase upwards; so a  *)
(* node at tree depth d >= 1 comes from a line of level >= d - 1.          *)
(***************************************************************************)
C16_StackIsRightmostPath ==
  pc = "loop" =>
    /\ Len(stack) >= 1
    /\ stack[1].node = 1
    /\ stack[Len(stack)].node = Len(heap)
    /\ \A k \in 2..Len(stack) :
         LET below == heap[stack[k - 1].node].children
         IN  /\ Len(below) > 0
             /\ below[Len(below)] = stack[k].node
    /\ \A k \in 3..Len(stack) : stack[k - 1].level < stack[k].level
    /\ \A k \in 1..Len(stack) :
         stack[k].level = parsedLines[stack[k].node].level
    /\ \A k \in 2..Len(heap) :
         parsedLines[k].level >= HeapDepth(heap, k) - 1

C16_Witness ==
  /\ pc = "loop"
  /\ i = 5
  /\ Len(stack) = 3
  /\ stack[1].level = 2
  /\ stack[2].level = 0
  /\ stack[3].level = 1
  /\ heap[2].children = <<3, 4>>

\* The open rectangles of two positions have a point in common.
InteriorsMeet(p, q) ==
  /\ p.x < q.x + q.width
  /\ q.x < p.x + p.width
  /\ p.y < q.y + q.height
  /\ q.y < p.y + p.height

(***************************************************************************)
(* C20: in the output of calculateLayout no two distinct node rectangles   *)
(* [x, x + width] x [y, y + height] have an interior point in common; in   *)
(* particular a parent's rectangle never reaches into the rectangle of     *)
(* one of its children.                                                    *)
(***************************************************************************)
C20_NoRectangleOverlap ==
  pc = "laid" =>
    \A p, q \in PositionsOf(layout) : p # q => ~InteriorsMeet(p, q)

(***************************************************************************)
(* The editor's rules.                                                     *)
(***************************************************************************)
\* The rows of the table stored under the current document's id.
StoredRows == {d \in db : d.id = currentDocument.id}

\* C17: whenever the current document has an id and hasUnsavedChanges is
\* false, the table holds a row under that id whose title and content are
\* those of the current document.
C17_CleanMeansStored ==
  (~hasUnsavedChanges /\ currentDocument.id # 0) =>
    \E d \in StoredRows : /\ d.title = currentDocument.title
                          /\ d.content = currentDocument.content

\* C18: the completion steps of handleSave leave the current document's
\* title and content as they were just before those steps ran.
C18_CompletionKeepsEdits ==
  [][SaveCompletes => /\ currentDocument'.title = currentDocument.title
                      /\ currentDocument'.content = currentDocument.content]_vars

\* A handleSave call whose database write has not resumed the handler yet.
SavesInFlight == {k \in 1..Len(ops) : ops[k].kind = "save"}

\* C19: at most one save is in flight, and while one is in flight saveStatus
\* is 'saving', whichever reset callbacks of earlier saves have run.
C19_OneSaveInFlight ==
  /\ Cardinality(SavesInFlight) <= 1
  /\ SavesInFlight # {} => saveStatus = "saving"

\* C21: once the parse effect has run for the current content, parseError is
\* null, parsedNodes is null exactly when the content is the empty string,
\* and for every other content, whitespace-only included, parsedNodes is
\* parseTextToTree(content) (ids aside); the catch branch never sets
\* parseError.
C21_ParsedMatchesContent ==
  /\ parseError = Null
  /\ effectDeps = ContentDep =>
       /\ (parsedNodes = Null) <=> (currentDocument.content = <<>>)
       /\ currentDocument.content # <<>> =>
            /\ parsedNodes # Null
            /\ SameShapeAndText(parsedNodes[1],
                                ParseTextToTree(currentDocument.content, 0))

====
